---------------------------- MODULE Spec2Model ----------------------------
(***************************************************************************)
(* provider-kops: the external client of the Kops managed resource         *)
(* (Observe / Create / Update / Delete) and the util functions it calls.   *)
(*                                                                         *)
(* One managed resource with identity name.domain is reconciled against a  *)
(* kops state store (the cluster object, its instance groups) and a cloud  *)
(* (the applied infrastructure).  Every handler is one action: it runs the *)
(* handler's external calls in program order, stops at the first one that  *)
(* fails, and leaves in `calls` the calls it made and in `ret` what it     *)
(* returned.  Which external call fails is an input of the action.         *)
(***************************************************************************)
EXTENDS Integers, Sequences, FiniteSets, TLC

VARIABLES
    desired,    \* cr.Spec.ForProvider: ClusterSpec, InstanceGroupSpec
    deleted,    \* the managed resource carries a deletion timestamp
    cond,       \* cr.Status: reason of the Ready condition last set by a handler
    cluster,    \* state store: the cluster object, or NoCluster
    igs,        \* state store: the cluster's instance group objects
    infra,      \* cloud: the infrastructure (and the CA key set) was applied
    calls,      \* external calls of the last handler invocation, in order
    ret,        \* what the last handler invocation returned
    fnIn,       \* input of a util function applied on its own
    fnOut,      \* its output
    store,      \* state store and cloud of several clusters, by cluster name
    pass        \* the reconcile pass of each of several managed resources

vars ==
    <<desired, deleted, cond, cluster, igs, infra, calls, ret, fnIn, fnOut, store, pass>>

-----------------------------------------------------------------------------
(* Bounds                                                                  *)

MaxGroups == 2      \* instance groups in a desired list
MaxVersion == 2     \* distinct values of the non-derived cluster fields
MaxFailures == 2    \* structural failures in a validation result
MaxNodes == 2       \* nodes in a validation result

-----------------------------------------------------------------------------
(* Error tags                                                              *)

errDeleteCluster == "cannot delete Kops cluster from API"
errNewCluster == "cannot create Kops cluster"
errNewClusterState == "cannot create Kops cluster state"
errNewInstanceGroupState == "cannot create Kops instance group state"
errNewCloud == "cannot create Kops cloud"
errNewCloudAssignment == "cannot assign Kops cloud"
errGetCluster == "cannot get Kops cluster from API"
errGetInstanceGroup == "cannot get Kops instance group from API"
errValidateCluster == "cannot validate Kops cluster"
errEvaluateClusterState == "cannot evaluate Kops cluster state"
errGetKubeConfig == "cannot get KubeConfig"
errGetClusterStatus == "cannot get Kops cluster status"
errUpdateCluster == "cannot update Kops cluster"
errUpdateClusterState == "cannot update Kops cluster state"
errDeleteResources == "cannot delete Kops resources"

-----------------------------------------------------------------------------
(* Errors.  An error text is a sequence of words; a wrapped error carries  *)
(* the tag it was wrapped with.                                            *)

NoErr == <<>>
NoTag == ""
NoError == [tag |-> NoTag, msg |-> NoErr]      \* a nil error returned by a handler

Wrap(err, tag) == [tag |-> tag, msg |-> err]
Unwrapped(err) == [tag |-> NoTag, msg |-> err]

\* strings.Contains(err.Error(), "not found")
ErrNotFound(err) ==
    \E i \in 1..(Len(err) - 1) : err[i] = "not" /\ err[i + 1] = "found"

\* what the state store answers for an absent / a present object
MsgClusterNotFound == <<"cluster", "not", "found">>
MsgClusterExists == <<"cluster", "already", "exists">>
MsgGroupNotFound == <<"instancegroup", "not", "found">>
MsgGroupExists == <<"instancegroup", "already", "exists">>
MsgNoCA == <<"cannot", "find", "CA", "certificate">>

\* texts of the errors an external call can fail with for any other reason
MsgRefused == <<"connection", "refused">>
MsgBucket == <<"bucket", "not", "found">>

-----------------------------------------------------------------------------
(* Data                                                                    *)

NoCluster ==
    [Name |-> "", Spec |-> [ConfigBase |-> "", MasterPublicName |-> "",
                            KubernetesVersion |-> 0]]
ClusterName == "a.example.com"                  \* externalName.domain
StateBucket == "s3://state"
ConfigBaseOf(name) == StateBucket \o "/" \o name   \* stateBucket/externalName.domain
ConfigBasePath == ConfigBaseOf(ClusterName)
LabelKey == "kops.k8s.io/instancegroup"

Versions == 1..MaxVersion
DerivedVals == {"", "api.a.example.com", "api.internal"}
ConfigBases == {"", ConfigBasePath}

\* kops.ClusterSpec: the two server-derived fields and the rest of the spec
ClusterSpecs ==
    [ConfigBase : ConfigBases, MasterPublicName : DerivedVals,
     KubernetesVersion : Versions]

Labels == {"master", "nodes"}
MachineTypes == {"t3.medium", "t3.large"}

\* kops.InstanceGroupSpec: NodeLabels[LabelKey] and the rest of the spec
InstanceGroupSpecs == [NodeLabels : Labels, MachineType : MachineTypes]

RECURSIVE SeqsUpTo(_, _)
SeqsUpTo(S, n) ==
    IF n = 0 THEN { <<>> }
    ELSE LET shorter == SeqsUpTo(S, n - 1)
         IN shorter \cup { Append(s, x) : s \in shorter, x \in S }

-----------------------------------------------------------------------------
(* time.Duration: an int64 count of nanoseconds, held as its eight bytes,  *)
(* least significant first, so that a product wraps as the int64 does.     *)

RECURSIVE Bytes(_, _)
Bytes(n, k) == IF k = 0 THEN <<>> ELSE <<n % 256>> \o Bytes(n \div 256, k - 1)

\* the int64 of a small natural number
Int64(n) == Bytes(n, 8)

\* the sum of a[i] * b[k + 1 - i] for i in lo..k
RECURSIVE Column(_, _, _, _)
Column(a, b, k, lo) ==
    IF lo > k THEN 0 ELSE a[lo] * b[k + 1 - lo] + Column(a, b, k, lo + 1)

RECURSIVE MulFrom(_, _, _, _)
MulFrom(a, b, k, carry) ==
    IF k > 8 THEN <<>>
    ELSE LET s == carry + Column(a, b, k, 1)
         IN <<s % 256>> \o MulFrom(a, b, k + 1, s \div 256)

\* a * b on int64: the low 64 bits of the product
Mul64(a, b) == MulFrom(a, b, 1, 0)

\* time.Hour = 3600 * 10^9 nanoseconds
Hour == Mul64(Int64(3600), Int64(1000000000))

DefaultTTL == 18

\* The values of kubernetesAPICertificateTTL: unset, bare numbers, whole hours
TTLs == { Int64(0), Int64(1), Int64(DefaultTTL), Hour, Mul64(Int64(DefaultTTL), Hour) }

-----------------------------------------------------------------------------
(* External calls.  A fault names the external call that fails in a        *)
(* handler invocation: the n-th call of operation op fails with text msg.  *)
(* At most one call fails per invocation, since every handler returns at   *)
(* the first failure.                                                      *)

NoFault == [op |-> "none", n |-> 0, msg |-> NoErr]

Hit(f, op, n) == f.op = op /\ f.n = n

Call(op, arg) == [op |-> op, arg |-> arg]

Ok(cs, val) == [calls |-> cs, err |-> NoErr, val |-> val]
Failed(cs, err) == [calls |-> cs, err |-> err, val |-> <<>>]

\* Runs the calls ops in order until the first one the fault hits.
RunOps(ops, f, n) ==
    LET bad == { i \in 1..Len(ops) : Hit(f, ops[i], n) }
        first == CHOOSE i \in bad : \A j \in bad : i <= j
    IN IF bad = {}
       THEN Ok([i \in 1..Len(ops) |-> Call(ops[i], "")], <<>>)
       ELSE Failed([i \in 1..first |-> Call(ops[i], "")], f.msg)

\* kopsClientset.GetCluster(ctx, name)
GetCluster(cl, f) ==
    IF Hit(f, "GetCluster", 1) THEN Failed(<<Call("GetCluster", "")>>, f.msg)
    ELSE IF cl = NoCluster THEN Failed(<<Call("GetCluster", "")>>, MsgClusterNotFound)
    ELSE Ok(<<Call("GetCluster", "")>>, cl)

\* kopsClientset.InstanceGroupsFor(cluster).List(ctx, opts)
ListInstanceGroups(gs, f) ==
    IF Hit(f, "ListInstanceGroups", 1)
    THEN Failed(<<Call("ListInstanceGroups", "")>>, f.msg)
    ELSE Ok(<<Call("ListInstanceGroups", "")>>, gs)

-----------------------------------------------------------------------------
(* package util                                                            *)

\* CreateClusterSpec: the desired cluster spec with ConfigBase filled in
CreateClusterSpec(d) ==
    [Name |-> d.Name,
     Spec |-> [d.ClusterSpec EXCEPT !.ConfigBase = ConfigBaseOf(d.Name)]]

\* CreateInstanceGroupSpec: an instance group object named by its label
CreateInstanceGroupSpec(ig) == [Name |-> ig.NodeLabels, Spec |-> ig]

\* Mutant: a ttl of zero is left as it is
ResolveTTL_NoDefault(ttl) == ttl

\* GetKubeconfigFromKopsState: set default ttl
ResolveTTL(ttl) == IF ttl = Int64(0) THEN Int64(DefaultTTL) ELSE ttl

\* kubernetesAPICertificateTTL * time.Hour, computed once for every ttl
Validity == [ttl \in TTLs |-> Mul64(ResolveTTL(ttl), Hour)]

\* GetKubeconfigFromKopsState: the pki.IssueCertRequest
IssueCertRequest(ttl) ==
    [Signer |-> "ca", Type |-> "client", CommonName |-> "kops-operator",
     Validity |-> Validity[ttl]]

\* the certificate pki.IssueCert issues for a request
Certificate(req) == [CommonName |-> req.CommonName, Validity |-> req.Validity]

\* Mutant: a missing CA key set does not stop the issuer
GetKubeconfigFromKopsState_NoCACheck(cl, inf, ttl, f, n) ==
    LET s1 == RunOps(<<"KeyStore", "FindKeyset">>, f, n)
        s2 == RunOps(<<"IssueCert", "CertAsBytes", "KeyAsBytes", "BuildRestConfig">>, f, n)
        config == [Host |-> <<"https://api.", cl.Name>>, Context |-> cl.Name,
                   CAData |-> "", CertData |-> Certificate(IssueCertRequest(ttl)),
                   KeyData |-> "key"]
    IN IF s1.err # NoErr THEN s1
       ELSE IF s2.err # NoErr THEN Failed(s1.calls \o s2.calls, s2.err)
       ELSE Ok(s1.calls \o s2.calls, config)

\* GetKubeconfigFromKopsState, called for the n-th time in the invocation.
\* The CA key set exists once the infrastructure was applied.
GetKubeconfigFromKopsState(cl, inf, ttl, f, n) ==
    LET s1 == RunOps(<<"KeyStore", "FindKeyset">>, f, n)
        s2 == RunOps(<<"ToCertificateBytes", "IssueCert", "CertAsBytes",
                       "KeyAsBytes", "BuildRestConfig">>, f, n)
        config == [Host |-> <<"https://api.", cl.Name>>, Context |-> cl.Name,
                   CAData |-> "ca", CertData |-> Certificate(IssueCertRequest(ttl)),
                   KeyData |-> "key"]
    IN IF s1.err # NoErr THEN s1
       ELSE IF ~inf THEN Failed(s1.calls, MsgNoCA)
       ELSE IF s2.err # NoErr THEN Failed(s1.calls \o s2.calls, s2.err)
       ELSE Ok(s1.calls \o s2.calls, config)

\* Mutant: the validation runs the provisioning engine on the cloud it built
ValidateKopsCluster_Applies(cl, gs, inf, ttl, f, v) ==
    LET kc == GetKubeconfigFromKopsState(cl, inf, ttl, f, 1)
        s1 == RunOps(<<"NewForConfig", "BuildCloud", "ApplyClusterCmd">>, f, 1)
        c1 == kc.calls \o s1.calls
        c3 == c1 \o <<Call("NewClusterValidator", ""), Call("Validate", "")>>
    IN IF kc.err # NoErr THEN kc
       ELSE IF s1.err # NoErr THEN Failed(c1, s1.err)
       ELSE IF Hit(f, "Validate", 1) THEN Failed(c3, f.msg)
       ELSE Ok(c3, v)

\* ValidateKopsCluster: v is what validator.Validate() answers when it succeeds
ValidateKopsCluster(cl, gs, inf, ttl, f, v) ==
    LET kc == GetKubeconfigFromKopsState(cl, inf, ttl, f, 1)
        s1 == RunOps(<<"NewForConfig", "BuildCloud">>, f, 1)
        c1 == kc.calls \o s1.calls
        c2 == Append(c1, Call("NewClusterValidator", ""))
        c3 == Append(c2, Call("Validate", ""))
    IN IF kc.err # NoErr THEN kc
       ELSE IF s1.err # NoErr THEN Failed(c1, s1.err)
       ELSE IF Hit(f, "NewClusterValidator", 1)
            THEN Failed(c2, <<"unexpected", "error", "creating", "validator:">> \o f.msg)
       ELSE IF Hit(f, "Validate", 1) THEN Failed(c3, f.msg)
       ELSE Ok(c3, v)

ConditionTrue == "True"
ConditionFalse == "False"
ConditionUnknown == "Unknown"

NodeMessage(node) == <<"node", node.Hostname, "condition is", node.Status>>

\* Mutant: every node that is not ready counts, whatever its status
RECURSIVE EvaluateNodes_NotTrue(_, _, _, _)
EvaluateNodes_NotTrue(nodes, i, result, errorMessages) ==
    IF i > Len(nodes) THEN [ok |-> result, msgs |-> errorMessages]
    ELSE IF nodes[i].Status # ConditionTrue
         THEN EvaluateNodes_NotTrue(nodes, i + 1, FALSE,
                                    Append(errorMessages, NodeMessage(nodes[i])))
         ELSE EvaluateNodes_NotTrue(nodes, i + 1, result, errorMessages)

\* EvaluateKopsValidationResult, the loop over validation.Nodes
RECURSIVE EvaluateNodes(_, _, _, _)
EvaluateNodes(nodes, i, result, errorMessages) ==
    IF i > Len(nodes) THEN [ok |-> result, msgs |-> errorMessages]
    ELSE IF nodes[i].Status = ConditionFalse
         THEN EvaluateNodes(nodes, i + 1, FALSE,
                            Append(errorMessages, NodeMessage(nodes[i])))
         ELSE EvaluateNodes(nodes, i + 1, result, errorMessages)

\* Mutant: a failure message already in the list is not appended again
EvaluateFailures_Distinct(failures) ==
    LET kept[i \in 0..Len(failures)] ==
            IF i = 0 THEN <<>>
            ELSE IF \E j \in 1..(i - 1) : failures[j].Message = failures[i].Message
                 THEN kept[i - 1]
                 ELSE Append(kept[i - 1], failures[i].Message)
    IN IF Len(failures) > 0
       THEN [ok |-> FALSE, msgs |-> kept[Len(failures)]]
       ELSE [ok |-> TRUE, msgs |-> <<>>]

\* EvaluateKopsValidationResult, the block over validation.Failures
EvaluateFailures(failures) ==
    IF Len(failures) > 0
    THEN [ok |-> FALSE, msgs |-> [i \in 1..Len(failures) |-> failures[i].Message]]
    ELSE [ok |-> TRUE, msgs |-> <<>>]

EvaluateKopsValidationResult(validation) ==
    LET fs == EvaluateFailures(validation.Failures)
    IN EvaluateNodes(validation.Nodes, 1, fs.ok, fs.msgs)

\* GenerateKubeConfig
GenerateKubeConfig(cl, inf, ttl, f) ==
    LET kc == GetKubeconfigFromKopsState(cl, inf, ttl, f, 2)
        cs == Append(kc.calls, Call("ClientcmdWrite", ""))
        out == [Server |-> kc.val.Host, CurrentContext |-> cl.Name,
                CertificateAuthorityData |-> kc.val.CAData,
                ClientCertificateData |-> kc.val.CertData,
                ClientKeyData |-> kc.val.KeyData]
    IN IF kc.err # NoErr THEN kc
       ELSE IF Hit(f, "ClientcmdWrite", 1)
            THEN Failed(cs, <<"failed to serialize config to yaml:">> \o f.msg)
       ELSE Ok(cs, out)

\* ClusterResourceUpToDate: old is the desired spec, new the observed one
ClusterResourceUpToDate(old, new) ==
    LET new2 == [new EXCEPT !.ConfigBase = "", !.MasterPublicName = ""]
    IN old = new2

\* Mutant: a desired group with no observed group of its label is out of date
InstanceGroupListResourceUpToDate_RequireMatch(old, new) ==
    \A i \in 1..Len(old) :
        \E j \in 1..Len(new) : old[i] = new[j].Spec

\* InstanceGroupListResourceUpToDate, the two nested loops from old[i], new.Items[j]:
\* the first label-matched pair with different specs returns false
RECURSIVE InstanceGroupLoop(_, _, _, _)
InstanceGroupLoop(old, new, i, j) ==
    IF i > Len(old) THEN TRUE
    ELSE IF j > Len(new) THEN InstanceGroupLoop(old, new, i + 1, 1)
    ELSE IF old[i].NodeLabels = new[j].Spec.NodeLabels /\ old[i] # new[j].Spec
         THEN FALSE
         ELSE InstanceGroupLoop(old, new, i, j + 1)

\* InstanceGroupListResourceUpToDate: old the desired specs, new the observed items
InstanceGroupListResourceUpToDate(old, new) == InstanceGroupLoop(old, new, 1, 1)

-----------------------------------------------------------------------------
(* package kops: external.Observe                                          *)

NoConnection == {}

\* What a handler returned: the ExternalObservation and the error, and
\* with them the stage that failed, the error of the external call that
\* failed there (cause), how the validation went and the condition set.
Observation(exists, upToDate, conn, err, cause, stage, validation, condSet) ==
    [op |-> "Observe", exists |-> exists, upToDate |-> upToDate, conn |-> conn,
     err |-> err, cause |-> cause, stage |-> stage, validation |-> validation,
     condSet |-> condSet]

\* Mutant: the not-found classification is dropped, every fetch error is returned
ObserveGetClusterFailed_NoClassifier(err) ==
    Observation(FALSE, FALSE, NoConnection, Wrap(err, errGetCluster), err,
                "cluster fetch", "notrun", "none")

\* Mutant: every fetch error is taken for absence and swallowed
ObserveGetClusterFailed_Swallowed(err) ==
    Observation(FALSE, FALSE, NoConnection, NoError, err,
                "cluster fetch", "notrun", "none")

\* Observe, the branch taken when GetCluster returned err
ObserveGetClusterFailed(err) ==
    IF ErrNotFound(err)
    THEN Observation(FALSE, FALSE, NoConnection, NoError, err,
                     "cluster fetch", "notrun", "none")
    ELSE Observation(FALSE, FALSE, NoConnection, Wrap(err, errGetCluster), err,
                     "cluster fetch", "notrun", "none")

\* Mutant: a failed instance group list is returned with ResourceExists true
ObserveListFailed_Exists(err) ==
    Observation(TRUE, FALSE, NoConnection, Wrap(err, errGetInstanceGroup), err,
                "instance group fetch", "notrun", "none")

\* Observe, the branch taken when the instance group list returned err
ObserveListFailed(err) ==
    Observation(FALSE, FALSE, NoConnection, Wrap(err, errGetInstanceGroup), err,
                "instance group fetch", "notrun", "none")

\* Observe, the branch taken when ValidateKopsCluster returned err
ObserveValidateFailed(err) ==
    Observation(FALSE, FALSE, NoConnection, Wrap(err, errValidateCluster), err,
                "validation", "error", "none")

\* fmt.Errorf("%s", res): the text of a list of messages
RECURSIVE Flatten(_)
Flatten(res) == IF res = <<>> THEN <<>> ELSE Head(res) \o Flatten(Tail(res))

\* Mutant: an Observe that follows an Update takes the cluster for up to date
ObserveSucceeded_AfterUpdate(d, observed, items, kubeconfig) ==
    Observation(TRUE,
                ret.op = "Update"
                    \/ (ClusterResourceUpToDate(d.ClusterSpec, observed.Spec)
                         /\ InstanceGroupListResourceUpToDate(d.InstanceGroupSpec, items)),
                { [key |-> "kubeconfig", value |-> kubeconfig] },
                NoError, NoErr, "none", "ok", "Available")

\* Mutant: an unhealthy cluster is reported as existing and not up to date
ObserveEvaluateFailed_NotUpToDate(res) ==
    Observation(TRUE, FALSE, NoConnection, NoError, Flatten(res),
                "validation", "notok", "none")

\* Observe, the branch taken when the validation result is not ok
ObserveEvaluateFailed(res) ==
    Observation(FALSE, FALSE, NoConnection, Wrap(Flatten(res), errEvaluateClusterState),
                Flatten(res),
                "validation", "notok", "none")

\* Mutant: the Available condition is set before the kubeconfig is generated
ObserveKubeConfigFailed_AvailableFirst(err) ==
    Observation(FALSE, FALSE, NoConnection, Wrap(err, errGetKubeConfig), err,
                "kubeconfig generation", "ok", "Available")

\* Observe, the branch taken when GenerateKubeConfig returned err
ObserveKubeConfigFailed(err) ==
    Observation(FALSE, FALSE, NoConnection, Wrap(err, errGetKubeConfig), err,
                "kubeconfig generation", "ok", "none")

\* Observe, from SetConditions(Available) to the final return
ObserveSucceeded(d, observed, items, kubeconfig) ==
    Observation(TRUE,
                ClusterResourceUpToDate(d.ClusterSpec, observed.Spec)
                    /\ InstanceGroupListResourceUpToDate(d.InstanceGroupSpec, items),
                { [key |-> "kubeconfig", value |-> kubeconfig] },
                NoError, NoErr, "none", "ok", "Available")

\* external.Observe: f is the fault of this invocation, v the validator's answer
ObserveRun(d, cl, gs, inf, f, v) ==
    LET get == GetCluster(cl, f)
        ls == ListInstanceGroups(gs, f)
        val == ValidateKopsCluster(get.val, ls.val, inf, d.KubernetesAPICertificateTTL, f, v)
        ev == EvaluateKopsValidationResult(val.val)
        kc == GenerateKubeConfig(get.val, inf, d.KubernetesAPICertificateTTL, f)
        c2 == get.calls \o ls.calls
        c3 == c2 \o val.calls
        c4 == c3 \o kc.calls
    IN IF get.err # NoErr
       THEN [calls |-> get.calls, ret |-> ObserveGetClusterFailed(get.err)]
       ELSE IF ls.err # NoErr
       THEN [calls |-> c2, ret |-> ObserveListFailed(ls.err)]
       ELSE IF val.err # NoErr
       THEN [calls |-> c3, ret |-> ObserveValidateFailed(val.err)]
       ELSE IF ~ev.ok
       THEN [calls |-> c3, ret |-> ObserveEvaluateFailed(ev.msgs)]
       ELSE IF kc.err # NoErr
       THEN [calls |-> c4, ret |-> ObserveKubeConfigFailed(kc.err)]
       ELSE [calls |-> c4, ret |-> ObserveSucceeded(d, get.val, ls.val, kc.val)]

-----------------------------------------------------------------------------
(* State store and cloud calls of Create, Update and Delete.  Each answers *)
(* [calls, err] and the state it leaves.                                   *)

HasGroup(gs, name) == \E i \in 1..Len(gs) : gs[i].Name = name

\* kopsClientset.CreateCluster(ctx, cluster)
CreateCluster(cl, obj, f) ==
    LET c == <<Call("CreateCluster", obj.Name)>>
    IN IF Hit(f, "CreateCluster", 1) THEN [calls |-> c, err |-> f.msg, cluster |-> cl]
       ELSE IF cl # NoCluster THEN [calls |-> c, err |-> MsgClusterExists, cluster |-> cl]
       ELSE [calls |-> c, err |-> NoErr, cluster |-> obj]

\* kopsClientset.UpdateCluster(ctx, cluster, status)
UpdateCluster(cl, obj, f) ==
    LET c == <<Call("UpdateCluster", obj.Name)>>
    IN IF Hit(f, "UpdateCluster", 1) THEN [calls |-> c, err |-> f.msg, cluster |-> cl]
       ELSE IF cl = NoCluster THEN [calls |-> c, err |-> MsgClusterNotFound, cluster |-> cl]
       ELSE [calls |-> c, err |-> NoErr, cluster |-> obj]

\* kopsClientset.InstanceGroupsFor(cluster).Create(ctx, group, opts), the k-th of the loop
CreateInstanceGroup(gs, g, f, k) ==
    LET c == <<Call("CreateInstanceGroup", g.Name)>>
    IN IF Hit(f, "CreateInstanceGroup", k) THEN [calls |-> c, err |-> f.msg, igs |-> gs]
       ELSE IF HasGroup(gs, g.Name) THEN [calls |-> c, err |-> MsgGroupExists, igs |-> gs]
       ELSE [calls |-> c, err |-> NoErr, igs |-> Append(gs, g)]

\* kopsClientset.InstanceGroupsFor(cluster).Update(ctx, group, opts), the k-th of the loop
UpdateInstanceGroup(gs, g, f, k) ==
    LET c == <<Call("UpdateInstanceGroup", g.Name)>>
    IN IF Hit(f, "UpdateInstanceGroup", k) THEN [calls |-> c, err |-> f.msg, igs |-> gs]
       ELSE IF ~HasGroup(gs, g.Name) THEN [calls |-> c, err |-> MsgGroupNotFound, igs |-> gs]
       ELSE [calls |-> c, err |-> NoErr,
             igs |-> [i \in 1..Len(gs) |-> IF gs[i].Name = g.Name THEN g ELSE gs[i]]]

\* Mutant: the loop goes on after a failed creation and returns the error at the end
RECURSIVE CreateGroups_KeepGoing(_, _, _, _, _)
CreateGroups_KeepGoing(list, k, gs, cs, f) ==
    IF k > Len(list) THEN [calls |-> cs, err |-> NoErr, igs |-> gs]
    ELSE LET r == CreateInstanceGroup(gs, CreateInstanceGroupSpec(list[k]), f, k)
             rest == CreateGroups_KeepGoing(list, k + 1, r.igs, cs \o r.calls, f)
         IN IF r.err # NoErr THEN [calls |-> rest.calls, err |-> r.err, igs |-> rest.igs]
            ELSE rest

\* Mutant: a failed creation is ignored and the loop goes on
RECURSIVE CreateGroups_IgnoreFailure(_, _, _, _, _)
CreateGroups_IgnoreFailure(list, k, gs, cs, f) ==
    IF k > Len(list) THEN [calls |-> cs, err |-> NoErr, igs |-> gs]
    ELSE LET r == CreateInstanceGroup(gs, CreateInstanceGroupSpec(list[k]), f, k)
         IN CreateGroups_IgnoreFailure(list, k + 1, r.igs, cs \o r.calls, f)

\* Create, the loop over cr.Spec.ForProvider.InstanceGroupSpec from its k-th element
RECURSIVE CreateGroups(_, _, _, _, _)
CreateGroups(list, k, gs, cs, f) ==
    IF k > Len(list) THEN [calls |-> cs, err |-> NoErr, igs |-> gs]
    ELSE LET r == CreateInstanceGroup(gs, CreateInstanceGroupSpec(list[k]), f, k)
         IN IF r.err # NoErr THEN [calls |-> cs \o r.calls, err |-> r.err, igs |-> r.igs]
            ELSE CreateGroups(list, k + 1, r.igs, cs \o r.calls, f)

\* Mutant: the loop goes on after a failed update and returns the error at the end
RECURSIVE UpdateGroups_KeepGoing(_, _, _, _, _)
UpdateGroups_KeepGoing(list, k, gs, cs, f) ==
    IF k > Len(list) THEN [calls |-> cs, err |-> NoErr, igs |-> gs]
    ELSE LET r == UpdateInstanceGroup(gs, CreateInstanceGroupSpec(list[k]), f, k)
             rest == UpdateGroups_KeepGoing(list, k + 1, r.igs, cs \o r.calls, f)
         IN IF r.err # NoErr THEN [calls |-> rest.calls, err |-> r.err, igs |-> rest.igs]
            ELSE rest

\* Update, the loop over cr.Spec.ForProvider.InstanceGroupSpec from its k-th element
RECURSIVE UpdateGroups(_, _, _, _, _)
UpdateGroups(list, k, gs, cs, f) ==
    IF k > Len(list) THEN [calls |-> cs, err |-> NoErr, igs |-> gs]
    ELSE LET r == UpdateInstanceGroup(gs, CreateInstanceGroupSpec(list[k]), f, k)
         IN IF r.err # NoErr THEN [calls |-> cs \o r.calls, err |-> r.err, igs |-> r.igs]
            ELSE UpdateGroups(list, k + 1, r.igs, cs \o r.calls, f)

-----------------------------------------------------------------------------
(* external.Create, external.Update, external.Delete                       *)

Result(op, err, stage, condSet) ==
    [op |-> op, exists |-> FALSE, upToDate |-> FALSE, conn |-> NoConnection,
     err |-> err, cause |-> err.msg, stage |-> stage, validation |-> "notrun",
     condSet |-> condSet]

Outcome(cs, r, cl, gs, inf) ==
    [calls |-> cs, ret |-> r, cluster |-> cl, igs |-> gs, infra |-> inf]

\* Create, the return after applyCmd.Run
CreateFinish(err) ==
    IF err # NoErr THEN Result("Create", Wrap(err, errNewCluster), "provisioning", "none")
    ELSE Result("Create", NoError, "none", "Creating")

\* external.Create
CreateRun(d, cl, gs, inf, f) ==
    LET cc == CreateCluster(cl, CreateClusterSpec(d), f)
        cg == CreateGroups(d.InstanceGroupSpec, 1, gs, cc.calls, f)
        bc == RunOps(<<"BuildCloud">>, f, 1)
        pa == RunOps(<<"PerformAssignments">>, f, 1)
        ap == RunOps(<<"ApplyClusterCmd">>, f, 1)
        c3 == cg.calls \o bc.calls
        c4 == c3 \o pa.calls
        c5 == c4 \o ap.calls
    IN IF cc.err # NoErr
       THEN Outcome(cc.calls, Result("Create", Wrap(cc.err, errNewClusterState),
                                     "cluster create", "none"), cc.cluster, gs, inf)
       ELSE IF cg.err # NoErr
       THEN Outcome(cg.calls, Result("Create", Wrap(cg.err, errNewInstanceGroupState),
                                     "instance group create", "none"), cc.cluster, cg.igs, inf)
       ELSE IF bc.err # NoErr
       THEN Outcome(c3, Result("Create", Wrap(bc.err, errNewCloud), "cloud build", "none"),
                    cc.cluster, cg.igs, inf)
       ELSE IF pa.err # NoErr
       THEN Outcome(c4, Result("Create", Wrap(pa.err, errNewCloudAssignment),
                               "cloud assignment", "none"), cc.cluster, cg.igs, inf)
       ELSE Outcome(c5, CreateFinish(ap.err), cc.cluster, cg.igs,
                    IF ap.err = NoErr THEN TRUE ELSE inf)

\* Update, from CreateClusterSpec to the call of GetClusterStatus
UpdatePrepare(f) ==
    LET bc == RunOps(<<"BuildCloud">>, f, 1)
        pa == RunOps(<<"PerformAssignments">>, f, 1)
        st == RunOps(<<"FindClusterStatus">>, f, 1)
    IN IF bc.err # NoErr
       THEN [calls |-> bc.calls, err |-> Wrap(bc.err, errNewCloud), stage |-> "cloud build"]
       ELSE IF pa.err # NoErr
       THEN [calls |-> bc.calls \o pa.calls, err |-> Wrap(pa.err, errNewCloudAssignment),
             stage |-> "cloud assignment"]
       ELSE IF st.err # NoErr
       THEN [calls |-> bc.calls \o pa.calls \o st.calls,
             err |-> Wrap(st.err, errGetClusterStatus), stage |-> "cluster status"]
       ELSE [calls |-> bc.calls \o pa.calls \o st.calls, err |-> NoError, stage |-> "none"]

\* Update, from the instance group loop to the return: updated is the
\* cluster object UpdateCluster left, cs the calls made so far
UpdateGroupsAndApply(d, updated, gs, inf, cs, f) ==
    LET ug == UpdateGroups(d.InstanceGroupSpec, 1, gs, cs, f)
        ap == RunOps(<<"ApplyClusterCmd">>, f, 1)
    IN IF ug.err # NoErr
       THEN Outcome(ug.calls,
                    Result("Update", Wrap(ug.err, errNewInstanceGroupState),
                           "instance group update", "none"),
                    updated, ug.igs, inf)
       ELSE IF ap.err # NoErr
       THEN Outcome(ug.calls \o ap.calls,
                    Result("Update", Wrap(ap.err, errUpdateCluster), "provisioning", "none"),
                    updated, ug.igs, inf)
       ELSE Outcome(ug.calls \o ap.calls, Result("Update", NoError, "none", "none"),
                    updated, ug.igs, TRUE)

\* Mutant: the cluster object is written before the cloud is built and assigned
UpdateRun_WriteFirst(d, cl, gs, inf, f) ==
    LET uc == UpdateCluster(cl, CreateClusterSpec(d), f)
        pre == UpdatePrepare(f)
    IN IF uc.err # NoErr
       THEN Outcome(uc.calls,
                    Result("Update", Wrap(uc.err, errUpdateClusterState), "cluster update", "none"),
                    uc.cluster, gs, inf)
       ELSE IF pre.err # NoError
       THEN Outcome(uc.calls \o pre.calls, Result("Update", pre.err, pre.stage, "none"),
                    uc.cluster, gs, inf)
       ELSE UpdateGroupsAndApply(d, uc.cluster, gs, inf, uc.calls \o pre.calls, f)

\* external.Update
UpdateRun(d, cl, gs, inf, f) ==
    LET pre == UpdatePrepare(f)
        uc == UpdateCluster(cl, CreateClusterSpec(d), f)
    IN IF pre.err # NoError
       THEN Outcome(pre.calls, Result("Update", pre.err, pre.stage, "none"), cl, gs, inf)
       ELSE IF uc.err # NoErr
       THEN Outcome(pre.calls \o uc.calls,
                    Result("Update", Wrap(uc.err, errUpdateClusterState), "cluster update", "none"),
                    uc.cluster, gs, inf)
       ELSE UpdateGroupsAndApply(d, uc.cluster, gs, inf, pre.calls \o uc.calls, f)

\* Mutant: the cluster object is deleted right after the fetch
DeleteRun_ClusterFirst(cl, gs, inf, f) ==
    LET get == GetCluster(cl, f)
        dc == RunOps(<<"DeleteCluster">>, f, 1)
    IN IF get.err # NoErr
       THEN Outcome(get.calls, Result("Delete", Wrap(get.err, errGetCluster),
                                      "cluster fetch", "none"), cl, gs, inf)
       ELSE IF dc.err # NoErr
       THEN Outcome(get.calls \o dc.calls, Result("Delete", Wrap(dc.err, errDeleteCluster),
                                                  "cluster delete", "none"), cl, gs, inf)
       ELSE Outcome(get.calls \o dc.calls, Result("Delete", NoError, "none", "Deleting"),
                    NoCluster, <<>>, inf)

\* external.Delete
DeleteRun(cl, gs, inf, f) ==
    LET get == GetCluster(cl, f)
        bc == RunOps(<<"BuildCloud">>, f, 1)
        lr == RunOps(<<"ListResources">>, f, 1)
        dr == RunOps(<<"DeleteResources">>, f, 1)
        dc == RunOps(<<"DeleteCluster">>, f, 1)
        c2 == get.calls \o bc.calls
        c3 == c2 \o lr.calls
        c4 == c3 \o dr.calls
        c5 == c4 \o dc.calls
    IN IF get.err # NoErr
       THEN Outcome(get.calls, Result("Delete", Wrap(get.err, errGetCluster),
                                      "cluster fetch", "none"), cl, gs, inf)
       ELSE IF bc.err # NoErr
       THEN Outcome(c2, Result("Delete", Wrap(bc.err, errDeleteCluster), "cloud build", "none"),
                    cl, gs, inf)
       ELSE IF lr.err # NoErr
       THEN Outcome(c3, Result("Delete", Unwrapped(lr.err), "resource listing", "none"),
                    cl, gs, inf)
       ELSE IF dr.err # NoErr
       THEN Outcome(c4, Result("Delete", Wrap(dr.err, errDeleteResources),
                               "resource deletion", "none"), cl, gs, inf)
       ELSE IF dc.err # NoErr
       THEN Outcome(c5, Result("Delete", Wrap(dc.err, errDeleteCluster),
                               "cluster delete", "none"), cl, gs, FALSE)
       ELSE Outcome(c5, Result("Delete", NoError, "none", "Deleting"), NoCluster, <<>>, FALSE)

-----------------------------------------------------------------------------
(* Inputs                                                                  *)

\* The desired spec.  Only whether the observed fields equal the desired
\* ones matters, so the desired version and machine type are fixed and the
\* observed ones vary.
DesiredClusterSpecs ==
    [ConfigBase : {""}, MasterPublicName : {""}, KubernetesVersion : {1}]
DesiredGroups == [NodeLabels : Labels, MachineType : {"t3.medium"}]
Desireds ==
    [Name : {ClusterName},
     ClusterSpec : DesiredClusterSpecs,
     InstanceGroupSpec : SeqsUpTo(DesiredGroups, MaxGroups),
     KubernetesAPICertificateTTL : {Int64(0)}]

\* What the state store may hold at the start: no cluster, or a cluster
\* written earlier (by this provider or by the kops command line), with
\* instance groups of distinct names.
StoredClustersOf(name) ==
    { [Name |-> name, Spec |-> s] :
        s \in [ConfigBase : {ConfigBaseOf(name)}, MasterPublicName : {""},
               KubernetesVersion : Versions] }
StoredClusters == StoredClustersOf(ClusterName)
NameRank(name) == IF name = "master" THEN 1 ELSE 2     \* the store lists by name
StoredGroups == { CreateInstanceGroupSpec(g) : g \in InstanceGroupSpecs }
StoredGroupLists ==
    { gs \in SeqsUpTo(StoredGroups, Cardinality(Labels)) :
        \A i, j \in 1..Len(gs) : i < j => NameRank(gs[i].Name) < NameRank(gs[j].Name) }

\* What validator.Validate() may answer
Failure(m) == [Message |-> m]
Node(h, st) == [Hostname |-> h, Status |-> st]
ObservedValidations ==
    [Failures : SeqsUpTo({Failure(<<"dns">>)}, 1),
     Nodes : SeqsUpTo({Node("n1", st) : st \in {ConditionTrue, ConditionFalse, ConditionUnknown}},
                      1)]

HealthyValidation == [Failures |-> <<>>, Nodes |-> <<>>]

\* The faults of one invocation.  The text of the error decides something
\* only where the handler classifies it, at the cluster fetch.
Faults(sites) ==
    UNION { { [op |-> s[1], n |-> s[2], msg |-> m] :
                m \in IF s[1] = "GetCluster" THEN {MsgRefused, MsgBucket}
                                              ELSE {MsgRefused} } : s \in sites }

KubeconfigOps ==
    {"KeyStore", "FindKeyset", "ToCertificateBytes", "IssueCert", "CertAsBytes",
     "KeyAsBytes", "BuildRestConfig"}

ObserveFaults ==
    {NoFault} \cup
    Faults({<<"GetCluster", 1>>, <<"ListInstanceGroups", 1>>, <<"NewForConfig", 1>>,
            <<"BuildCloud", 1>>, <<"NewClusterValidator", 1>>, <<"Validate", 1>>,
            <<"ClientcmdWrite", 1>>}
           \cup (KubeconfigOps \X {1, 2}))
CreateFaults ==
    {NoFault} \cup
    Faults({<<"CreateCluster", 1>>, <<"BuildCloud", 1>>, <<"PerformAssignments", 1>>,
            <<"ApplyClusterCmd", 1>>}
           \cup ({"CreateInstanceGroup"} \X (1..MaxGroups)))
UpdateFaults ==
    {NoFault} \cup
    Faults({<<"BuildCloud", 1>>, <<"PerformAssignments", 1>>, <<"FindClusterStatus", 1>>,
            <<"UpdateCluster", 1>>, <<"ApplyClusterCmd", 1>>}
           \cup ({"UpdateInstanceGroup"} \X (1..MaxGroups)))
DeleteFaults ==
    {NoFault} \cup
    Faults({<<"GetCluster", 1>>, <<"BuildCloud", 1>>, <<"ListResources", 1>>,
            <<"DeleteResources", 1>>, <<"DeleteCluster", 1>>})

-----------------------------------------------------------------------------
(* The managed reconciler: every pass calls Observe, and then, when        *)
(* Observe returned no error, Delete, Create or Update as the observation  *)
(* and the deletion timestamp say.                                         *)

CreateSelected(r) == r.op = "Observe" /\ r.err = NoError /\ ~r.exists
UpdateSelected(r) == r.op = "Observe" /\ r.err = NoError /\ r.exists /\ ~r.upToDate
DeleteSelected(r) == r.op = "Observe" /\ r.err = NoError /\ r.exists

NoInput == [fn |-> "none"]
NoOutput == [done |-> FALSE]
NoStore == <<>>
NoPass == <<>>

Init ==
    /\ desired \in Desireds
    /\ deleted \in BOOLEAN
    /\ cond = "none"
    /\ \/ cluster = NoCluster /\ igs = <<>> /\ infra = FALSE
       \/ cluster \in StoredClusters /\ igs \in StoredGroupLists /\ infra \in BOOLEAN
    /\ calls = <<>>
    /\ ret = Result("none", NoError, "none", "none")
    /\ fnIn = NoInput
    /\ fnOut = NoOutput
    /\ store = NoStore
    /\ pass = NoPass

SetConditions(c, condSet) == IF condSet = "none" THEN c ELSE condSet

Observe ==
    \E f \in ObserveFaults :
    \E v \in IF f = NoFault THEN ObservedValidations ELSE {HealthyValidation} :
        LET o == ObserveRun(desired, cluster, igs, infra, f, v)
        IN /\ calls' = o.calls
           /\ ret' = o.ret
           /\ cond' = SetConditions(cond, o.ret.condSet)
           /\ UNCHANGED <<desired, deleted, cluster, igs, infra, fnIn, fnOut, store, pass>>

Create ==
    /\ ~deleted
    /\ CreateSelected(ret)
    /\ \E f \in CreateFaults :
        LET o == CreateRun(desired, cluster, igs, infra, f)
        IN /\ calls' = o.calls
           /\ ret' = o.ret
           /\ cond' = SetConditions(cond, o.ret.condSet)
           /\ cluster' = o.cluster
           /\ igs' = o.igs
           /\ infra' = o.infra
           /\ UNCHANGED <<desired, deleted, fnIn, fnOut, store, pass>>

Update ==
    /\ ~deleted
    /\ UpdateSelected(ret)
    /\ \E f \in UpdateFaults :
        LET o == UpdateRun(desired, cluster, igs, infra, f)
        IN /\ calls' = o.calls
           /\ ret' = o.ret
           /\ cond' = SetConditions(cond, o.ret.condSet)
           /\ cluster' = o.cluster
           /\ igs' = o.igs
           /\ infra' = o.infra
           /\ UNCHANGED <<desired, deleted, fnIn, fnOut, store, pass>>

Delete ==
    /\ deleted
    /\ DeleteSelected(ret)
    /\ \E f \in DeleteFaults :
        LET o == DeleteRun(cluster, igs, infra, f)
        IN /\ calls' = o.calls
           /\ ret' = o.ret
           /\ cond' = SetConditions(cond, o.ret.condSet)
           /\ cluster' = o.cluster
           /\ igs' = o.igs
           /\ infra' = o.infra
           /\ UNCHANGED <<desired, deleted, fnIn, fnOut, store, pass>>

Next == Observe \/ Create \/ Update \/ Delete

Spec == Init /\ [][Next]_vars

-----------------------------------------------------------------------------
(* The reconciler while the external calls succeed: the managed resource   *)
(* is not being deleted, the desired spec is fixed and names at least one  *)
(* instance group and each one once, and the validator finds the cluster healthy once the        *)
(* infrastructure is applied.  One Create may be cut short by a call that  *)
(* fails after the cluster object was created.  The reconciler polls, so   *)
(* an enabled handler is eventually run.                                   *)

DistinctLabels(list) ==
    \A i, j \in 1..Len(list) : i # j => list[i].NodeLabels # list[j].NodeLabels

InitLive ==
    /\ desired \in { d \in Desireds : /\ d.InstanceGroupSpec # <<>>
                                      /\ DistinctLabels(d.InstanceGroupSpec) }
    /\ deleted = FALSE
    /\ cond = "none"
    /\ \/ cluster = NoCluster /\ igs = <<>> /\ infra = FALSE
       \/ cluster \in StoredClusters /\ igs \in StoredGroupLists /\ infra = TRUE
    /\ calls = <<>>
    /\ ret = Result("none", NoError, "none", "none")
    /\ fnIn = NoInput
    /\ fnOut = NoOutput
    /\ store = NoStore
    /\ pass = NoPass

ObserveOk ==
    LET o == ObserveRun(desired, cluster, igs, infra, NoFault, HealthyValidation)
    IN /\ calls' = o.calls
       /\ ret' = o.ret
       /\ cond' = SetConditions(cond, o.ret.condSet)
       /\ UNCHANGED <<desired, deleted, cluster, igs, infra, fnIn, fnOut, store, pass>>

CreateOk ==
    /\ CreateSelected(ret)
    /\ LET o == CreateRun(desired, cluster, igs, infra, NoFault)
       IN /\ calls' = o.calls
          /\ ret' = o.ret
          /\ cond' = SetConditions(cond, o.ret.condSet)
          /\ cluster' = o.cluster
          /\ igs' = o.igs
          /\ infra' = o.infra
          /\ UNCHANGED <<desired, deleted, fnIn, fnOut, store, pass>>

\* the calls of Create that follow the creation of the cluster object
AbortFaults ==
    Faults({<<"BuildCloud", 1>>, <<"PerformAssignments", 1>>, <<"ApplyClusterCmd", 1>>}
           \cup ({"CreateInstanceGroup"} \X (1..MaxGroups)))

CreateAborted ==
    /\ CreateSelected(ret)
    /\ \E f \in AbortFaults :
        LET o == CreateRun(desired, cluster, igs, infra, f)
        IN /\ o.ret.err # NoError
           /\ calls' = o.calls
           /\ ret' = o.ret
           /\ cond' = SetConditions(cond, o.ret.condSet)
           /\ cluster' = o.cluster
           /\ igs' = o.igs
           /\ infra' = o.infra
           /\ UNCHANGED <<desired, deleted, fnIn, fnOut, store, pass>>

UpdateOk ==
    /\ UpdateSelected(ret)
    /\ LET o == UpdateRun(desired, cluster, igs, infra, NoFault)
       IN /\ calls' = o.calls
          /\ ret' = o.ret
          /\ cond' = SetConditions(cond, o.ret.condSet)
          /\ cluster' = o.cluster
          /\ igs' = o.igs
          /\ infra' = o.infra
          /\ UNCHANGED <<desired, deleted, fnIn, fnOut, store, pass>>

NextLive == ObserveOk \/ CreateOk \/ CreateAborted \/ UpdateOk

SpecLive ==
    /\ InitLive
    /\ [][NextLive]_vars
    /\ WF_vars(ObserveOk)
    /\ WF_vars(CreateOk)
    /\ WF_vars(UpdateOk)

-----------------------------------------------------------------------------
(* Passes of two managed resources run side by side.  Each handler is cut  *)
(* at its accesses to the state store and the cloud: one step is one such  *)
(* access together with the calls around it that touch neither.  A pass is *)
(* Observe and then the handler the observation selects.                   *)

Identities == {"a.example.com", "b.example.com"}

\* fmt.Sprintf("%v.%v", meta.GetExternalName(cr), cr.Spec.ForProvider.Domain)
\* Mutant: every managed resource asks for the same cluster
ExternalName_Shared(d) == "a.example.com"

ExternalName(d) == d.Name

Entry(cl, gs, inf) == [cluster |-> cl, igs |-> gs, infra |-> inf]
NoEntry == Entry(NoCluster, <<>>, FALSE)

\* the desired spec of a managed resource: one instance group
ParDesired(id) ==
    [Name |-> id,
     ClusterSpec |-> [ConfigBase |-> "", MasterPublicName |-> "", KubernetesVersion |-> 1],
     InstanceGroupSpec |-> <<[NodeLabels |-> "master", MachineType |-> "t3.medium"]>>,
     KubernetesAPICertificateTTL |-> Int64(0)]

\* what the store holds for a cluster name at the start: nothing, or an
\* applied cluster of another version whose group has another machine type
ParEntries(id) ==
    {NoEntry}
    \cup { Entry(c, <<CreateInstanceGroupSpec([NodeLabels |-> "master",
                                               MachineType |-> "t3.large"])>>, TRUE) :
             c \in { c \in StoredClustersOf(id) : c.Spec.KubernetesVersion = MaxVersion } }

\* the calls that may fail in a pass
ParFaults(op) ==
    {NoFault} \cup
    CASE op = "Observe" -> Faults({<<"Validate", 1>>})
      [] op = "Create" -> Faults({<<"CreateInstanceGroup", 1>>, <<"ApplyClusterCmd", 1>>})
      [] op = "Update" -> Faults({<<"UpdateInstanceGroup", 1>>, <<"ApplyClusterCmd", 1>>})
      [] op = "Delete" -> Faults({<<"DeleteCluster", 1>>})

IdlePass(id, del) ==
    [desired |-> ParDesired(id), deleted |-> del, op |-> "none", pc |-> "idle", k |-> 1,
     f |-> NoFault, start |-> NoEntry, cluster |-> NoCluster, ig |-> <<>>,
     calls |-> <<>>, ret |-> Result("none", NoError, "none", "none")]

InitPar ==
    /\ desired = ParDesired(ClusterName)
    /\ deleted = FALSE
    /\ cond = "none"
    /\ cluster = NoCluster
    /\ igs = <<>>
    /\ infra = FALSE
    /\ calls = <<>>
    /\ ret = Result("none", NoError, "none", "none")
    /\ fnIn = NoInput
    /\ fnOut = NoOutput
    /\ store \in { st \in [Identities -> UNION { ParEntries(id) : id \in Identities }] :
                     \A id \in Identities : st[id] \in ParEntries(id) }
    /\ pass \in { ps \in [Identities -> { IdlePass(id, del) : id \in Identities,
                                                                del \in BOOLEAN }] :
                     \A id \in Identities : ps[id].desired.Name = id }

\* the handler goes on to its next access / returns
Goto(p, cs, pc) == [p EXCEPT !.pc = pc, !.calls = @ \o cs]
Finish(p, cs, r) == [p EXCEPT !.pc = "done", !.calls = @ \o cs, !.ret = r]
Step(p, st) == [p |-> p, st |-> st]

\* external.Observe, one access at a time
ObserveStep(p, st) ==
    LET d == p.desired
        ttl == d.KubernetesAPICertificateTTL
        key == p.cluster.Name
    IN CASE p.pc = "GetCluster" ->
              LET r == GetCluster(st[ExternalName(d)].cluster, p.f)
              IN IF r.err # NoErr
                 THEN Step(Finish(p, r.calls, ObserveGetClusterFailed(r.err)), st)
                 ELSE Step([Goto(p, r.calls, "List") EXCEPT !.cluster = r.val], st)
         [] p.pc = "List" ->
              LET r == ListInstanceGroups(st[key].igs, p.f)
              IN IF r.err # NoErr
                 THEN Step(Finish(p, r.calls, ObserveListFailed(r.err)), st)
                 ELSE Step([Goto(p, r.calls, "Validate") EXCEPT !.ig = r.val], st)
         [] p.pc = "Validate" ->
              LET r == ValidateKopsCluster(p.cluster, p.ig, st[key].infra, ttl, p.f,
                                           HealthyValidation)
                  ev == EvaluateKopsValidationResult(r.val)
              IN IF r.err # NoErr
                 THEN Step(Finish(p, r.calls, ObserveValidateFailed(r.err)), st)
                 ELSE IF ~ev.ok
                 THEN Step(Finish(p, r.calls, ObserveEvaluateFailed(ev.msgs)), st)
                 ELSE Step(Goto(p, r.calls, "Kubeconfig"), st)
         [] p.pc = "Kubeconfig" ->
              LET r == GenerateKubeConfig(p.cluster, st[key].infra, ttl, p.f)
              IN IF r.err # NoErr
                 THEN Step(Finish(p, r.calls, ObserveKubeConfigFailed(r.err)), st)
                 ELSE Step(Finish(p, r.calls, ObserveSucceeded(d, p.cluster, p.ig, r.val)),
                           st)

\* external.Create, one access at a time
CreateStep(p, st) ==
    LET d == p.desired
        list == d.InstanceGroupSpec
        key == p.cluster.Name
    IN CASE p.pc = "CreateCluster" ->
              LET obj == CreateClusterSpec(d)
                  r == CreateCluster(st[obj.Name].cluster, obj, p.f)
              IN IF r.err # NoErr
                 THEN Step(Finish(p, r.calls, Result("Create", Wrap(r.err, errNewClusterState),
                                                     "cluster create", "none")), st)
                 ELSE Step([Goto(p, r.calls, IF list = <<>> THEN "Apply" ELSE "Group")
                               EXCEPT !.cluster = r.cluster, !.k = 1],
                           [st EXCEPT ![obj.Name].cluster = r.cluster])
         [] p.pc = "Group" ->
              LET r == CreateInstanceGroup(st[key].igs, CreateInstanceGroupSpec(list[p.k]),
                                           p.f, p.k)
              IN IF r.err # NoErr
                 THEN Step(Finish(p, r.calls,
                                  Result("Create", Wrap(r.err, errNewInstanceGroupState),
                                         "instance group create", "none")), st)
                 ELSE Step([Goto(p, r.calls, IF p.k = Len(list) THEN "Apply" ELSE "Group")
                               EXCEPT !.k = p.k + 1],
                           [st EXCEPT ![key].igs = r.igs])
         [] p.pc = "Apply" ->
              LET bc == RunOps(<<"BuildCloud">>, p.f, 1)
                  pa == RunOps(<<"PerformAssignments">>, p.f, 1)
                  ap == RunOps(<<"ApplyClusterCmd">>, p.f, 1)
              IN IF bc.err # NoErr
                 THEN Step(Finish(p, bc.calls, Result("Create", Wrap(bc.err, errNewCloud),
                                                      "cloud build", "none")), st)
                 ELSE IF pa.err # NoErr
                 THEN Step(Finish(p, bc.calls \o pa.calls,
                                  Result("Create", Wrap(pa.err, errNewCloudAssignment),
                                         "cloud assignment", "none")), st)
                 ELSE Step(Finish(p, bc.calls \o pa.calls \o ap.calls, CreateFinish(ap.err)),
                           IF ap.err = NoErr THEN [st EXCEPT ![key].infra = TRUE] ELSE st)

\* external.Update, one access at a time
UpdateStep(p, st) ==
    LET d == p.desired
        list == d.InstanceGroupSpec
        key == p.cluster.Name
    IN CASE p.pc = "UpdateCluster" ->
              LET pre == UpdatePrepare(p.f)
                  obj == CreateClusterSpec(d)
                  r == UpdateCluster(st[obj.Name].cluster, obj, p.f)
              IN IF pre.err # NoError
                 THEN Step(Finish(p, pre.calls, Result("Update", pre.err, pre.stage, "none")),
                           st)
                 ELSE IF r.err # NoErr
                 THEN Step(Finish(p, pre.calls \o r.calls,
                                  Result("Update", Wrap(r.err, errUpdateClusterState),
                                         "cluster update", "none")), st)
                 ELSE Step([Goto(p, pre.calls \o r.calls,
                                 IF list = <<>> THEN "Apply" ELSE "Group")
                               EXCEPT !.cluster = r.cluster, !.k = 1],
                           [st EXCEPT ![obj.Name].cluster = r.cluster])
         [] p.pc = "Group" ->
              LET r == UpdateInstanceGroup(st[key].igs, CreateInstanceGroupSpec(list[p.k]),
                                           p.f, p.k)
              IN IF r.err # NoErr
                 THEN Step(Finish(p, r.calls,
                                  Result("Update", Wrap(r.err, errNewInstanceGroupState),
                                         "instance group update", "none")), st)
                 ELSE Step([Goto(p, r.calls, IF p.k = Len(list) THEN "Apply" ELSE "Group")
                               EXCEPT !.k = p.k + 1],
                           [st EXCEPT ![key].igs = r.igs])
         [] p.pc = "Apply" ->
              LET ap == RunOps(<<"ApplyClusterCmd">>, p.f, 1)
              IN IF ap.err # NoErr
                 THEN Step(Finish(p, ap.calls, Result("Update", Wrap(ap.err, errUpdateCluster),
                                                      "provisioning", "none")), st)
                 ELSE Step(Finish(p, ap.calls, Result("Update", NoError, "none", "none")),
                           [st EXCEPT ![key].infra = TRUE])

\* external.Delete, one access at a time
DeleteStep(p, st) ==
    LET d == p.desired
        key == p.cluster.Name
    IN CASE p.pc = "GetCluster" ->
              LET r == GetCluster(st[ExternalName(d)].cluster, p.f)
              IN IF r.err # NoErr
                 THEN Step(Finish(p, r.calls, Result("Delete", Wrap(r.err, errGetCluster),
                                                     "cluster fetch", "none")), st)
                 ELSE Step([Goto(p, r.calls, "Resources") EXCEPT !.cluster = r.val], st)
         [] p.pc = "Resources" ->
              LET bc == RunOps(<<"BuildCloud">>, p.f, 1)
                  lr == RunOps(<<"ListResources">>, p.f, 1)
                  dr == RunOps(<<"DeleteResources">>, p.f, 1)
              IN IF bc.err # NoErr
                 THEN Step(Finish(p, bc.calls, Result("Delete", Wrap(bc.err, errDeleteCluster),
                                                      "cloud build", "none")), st)
                 ELSE IF lr.err # NoErr
                 THEN Step(Finish(p, bc.calls \o lr.calls,
                                  Result("Delete", Unwrapped(lr.err), "resource listing",
                                         "none")), st)
                 ELSE IF dr.err # NoErr
                 THEN Step(Finish(p, bc.calls \o lr.calls \o dr.calls,
                                  Result("Delete", Wrap(dr.err, errDeleteResources),
                                         "resource deletion", "none")), st)
                 ELSE Step(Goto(p, bc.calls \o lr.calls \o dr.calls, "DeleteCluster"),
                           [st EXCEPT ![key].infra = FALSE])
         [] p.pc = "DeleteCluster" ->
              LET dc == RunOps(<<"DeleteCluster">>, p.f, 1)
              IN IF dc.err # NoErr
                 THEN Step(Finish(p, dc.calls, Result("Delete", Wrap(dc.err, errDeleteCluster),
                                                      "cluster delete", "none")), st)
                 ELSE Step(Finish(p, dc.calls, Result("Delete", NoError, "none", "Deleting")),
                           [st EXCEPT ![key] = NoEntry])

FirstStep(op) ==
    CASE op = "Observe" -> "GetCluster"
      [] op = "Create" -> "CreateCluster"
      [] op = "Update" -> "UpdateCluster"
      [] op = "Delete" -> "GetCluster"

\* the handler the managed reconciler runs after an Observe, or "none"
Selected(del, r) ==
    IF del THEN (IF DeleteSelected(r) THEN "Delete" ELSE "none")
    ELSE IF CreateSelected(r) THEN "Create"
    ELSE IF UpdateSelected(r) THEN "Update"
    ELSE "none"

\* a handler is called: its connector gave it a clientset of its own, and
\* what the store holds for its cluster at this moment is noted in start
Enter(id, op) ==
    \E f \in ParFaults(op) :
        /\ pass' = [pass EXCEPT ![id] =
                       [@ EXCEPT !.op = op, !.pc = FirstStep(op), !.k = 1, !.f = f,
                                 !.start = store[id], !.cluster = NoCluster, !.ig = <<>>,
                                 !.calls = <<>>]]
        /\ UNCHANGED <<desired, deleted, cond, cluster, igs, infra, calls, ret, fnIn, fnOut,
                       store>>

BeginPass(id) ==
    /\ pass[id].pc = "idle"
    /\ Enter(id, "Observe")

SelectHandler(id) ==
    /\ pass[id].pc = "done"
    /\ pass[id].op = "Observe"
    /\ Selected(pass[id].deleted, pass[id].ret) # "none"
    /\ Enter(id, Selected(pass[id].deleted, pass[id].ret))

StepHandler(id) ==
    /\ pass[id].pc \notin {"idle", "done"}
    /\ LET p == pass[id]
           o == CASE p.op = "Observe" -> ObserveStep(p, store)
                  [] p.op = "Create" -> CreateStep(p, store)
                  [] p.op = "Update" -> UpdateStep(p, store)
                  [] p.op = "Delete" -> DeleteStep(p, store)
       IN /\ pass' = [pass EXCEPT ![id] = o.p]
          /\ store' = o.st
    /\ UNCHANGED <<desired, deleted, cond, cluster, igs, infra, calls, ret, fnIn, fnOut>>

NextPar == \E id \in Identities : BeginPass(id) \/ SelectHandler(id) \/ StepHandler(id)

SpecPar == InitPar /\ [][NextPar]_vars

-----------------------------------------------------------------------------
(* The util functions applied on their own: the inputs are drawn in the    *)
(* initial state and one action per function applies it.                   *)

FnFailures == { Failure(<<"dns">>), Failure(<<"etcd">>) }
FnNodes ==
    { Node(h, st) : h \in {"n1", "n2"},
                    st \in {ConditionTrue, ConditionFalse, ConditionUnknown, ""} }
FnValidations ==
    [Failures : SeqsUpTo(FnFailures, MaxFailures), Nodes : SeqsUpTo(FnNodes, MaxNodes)]

\* Instance groups given to the comparator: "" is a group without the label
FnLabels == Labels \cup {""}
FnGroupSpecs == [NodeLabels : FnLabels, MachineType : MachineTypes]
FnGroupLists == SeqsUpTo(FnGroupSpecs, MaxGroups)
FnGroupItems == SeqsUpTo({ CreateInstanceGroupSpec(g) : g \in FnGroupSpecs }, MaxGroups)

FnFaults == {NoFault} \cup Faults(KubeconfigOps \X {1})

FnInputs ==
    { [fn |-> "Evaluate", validation |-> v] : v \in FnValidations }
    \cup { [fn |-> "Kubeconfig", cluster |-> c, ca |-> ca, ttl |-> t, fault |-> f] :
             c \in StoredClusters, ca \in BOOLEAN, t \in TTLs, f \in FnFaults }
    \cup { [fn |-> "ClusterUpToDate", old |-> o, new |-> n] :
             o \in ClusterSpecs, n \in ClusterSpecs }
    \cup { [fn |-> "GroupsUpToDate", specs |-> o, items |-> n] :
             o \in FnGroupLists, n \in FnGroupItems }

InitFn ==
    /\ desired = [Name |-> ClusterName,
                  ClusterSpec |-> [ConfigBase |-> "", MasterPublicName |-> "",
                                   KubernetesVersion |-> 1],
                  InstanceGroupSpec |-> <<>>,
                  KubernetesAPICertificateTTL |-> Int64(0)]
    /\ deleted = FALSE
    /\ cond = "none"
    /\ cluster = NoCluster
    /\ igs = <<>>
    /\ infra = FALSE
    /\ calls = <<>>
    /\ ret = Result("none", NoError, "none", "none")
    /\ fnIn \in FnInputs
    /\ fnOut = NoOutput
    /\ store = NoStore
    /\ pass = NoPass

Output(res) == [done |-> TRUE, res |-> res]

ApplyEvaluate ==
    /\ fnIn.fn = "Evaluate"
    /\ fnOut = NoOutput
    /\ fnOut' = Output(EvaluateKopsValidationResult(fnIn.validation))
    /\ UNCHANGED <<desired, deleted, cond, cluster, igs, infra, calls, ret, fnIn,
                   store, pass>>

ApplyClusterUpToDate ==
    /\ fnIn.fn = "ClusterUpToDate"
    /\ fnOut = NoOutput
    /\ fnOut' = Output(ClusterResourceUpToDate(fnIn.old, fnIn.new))
    /\ UNCHANGED <<desired, deleted, cond, cluster, igs, infra, calls, ret, fnIn,
                   store, pass>>

ApplyGroupsUpToDate ==
    /\ fnIn.fn = "GroupsUpToDate"
    /\ fnOut = NoOutput
    /\ fnOut' = Output(InstanceGroupListResourceUpToDate(fnIn.specs, fnIn.items))
    /\ UNCHANGED <<desired, deleted, cond, cluster, igs, infra, calls, ret, fnIn,
                   store, pass>>

ApplyGetKubeconfig ==
    /\ fnIn.fn = "Kubeconfig"
    /\ fnOut = NoOutput
    /\ fnOut' = Output(GetKubeconfigFromKopsState(fnIn.cluster, fnIn.ca, fnIn.ttl,
                                                  fnIn.fault, 1))
    /\ UNCHANGED <<desired, deleted, cond, cluster, igs, infra, calls, ret, fnIn,
                   store, pass>>

NextFn ==
    ApplyEvaluate \/ ApplyClusterUpToDate \/ ApplyGroupsUpToDate \/ ApplyGetKubeconfig

SpecFn == InitFn /\ [][NextFn]_vars

-----------------------------------------------------------------------------
(* Properties of Observe                                                   *)

CallOps == { calls[i].op : i \in 1..Len(calls) }

\* C1: when the cluster fetch of an Observe fails with an error classified
\* as not found, Observe returns exists = false and no error, and the fetch
\* is the only external call of the invocation.
C1_ObserveNotFound ==
    (ret.op = "Observe" /\ ret.stage = "cluster fetch" /\ ErrNotFound(ret.cause))
        => /\ ~ret.exists
           /\ ret.err = NoError
           /\ calls = <<Call("GetCluster", "")>>

C1_Witness ==
    /\ ret.op = "Observe" /\ ret.stage = "cluster fetch"
    /\ cluster = NoCluster /\ ret.cause = MsgClusterNotFound
    /\ ~ret.exists /\ ret.err = NoError

\* C2: when the validation of an existing cluster fails (the validator call
\* errors, or the reduced result is not ok), Observe returns exists = false
\* and an error, so the observation never selects Update.
C2_ValidationFailureIsError ==
    (ret.op = "Observe" /\ ret.validation \in {"error", "notok"})
        => /\ ~ret.exists
           /\ ret.err # NoError
           /\ ret.err.tag \in {errValidateCluster, errEvaluateClusterState}
           /\ ~UpdateSelected(ret)

C2_Witness ==
    /\ ret.op = "Observe" /\ ret.validation = "notok"
    /\ cluster # NoCluster /\ ~ret.exists
    /\ ret.err.tag = errEvaluateClusterState

\* C3: when the cluster fetch of an Observe fails with an error that is not
\* classified as not found, Observe returns exists = false and an error, so
\* the observation never selects Create.
C3_FetchErrorPropagated ==
    (ret.op = "Observe" /\ ret.stage = "cluster fetch" /\ ~ErrNotFound(ret.cause))
        => /\ ~ret.exists
           /\ ret.err = Wrap(ret.cause, errGetCluster)
           /\ ~CreateSelected(ret)

C3_Witness ==
    /\ ret.op = "Observe" /\ ret.stage = "cluster fetch"
    /\ ret.cause = MsgRefused /\ ret.err.tag = errGetCluster /\ ~ret.exists

\* C6 as claimed: the Available condition is set only by an Observe that
\* completed every stage, with the validation passing and upToDate true.
C6_AvailableOnlyWhenUpToDate ==
    ret.condSet = "Available"
        => /\ ret.op = "Observe" /\ ret.err = NoError /\ ret.stage = "none"
           /\ ret.validation = "ok"
           /\ ret.upToDate

\* C6 amended: the Available condition is set only by an Observe that
\* completed every stage (cluster fetch, instance group list, validation
\* passing, kubeconfig generation) and returns exists = true with no error;
\* upToDate may be true or false.
C6_AvailableOnlyWhenObserved ==
    ret.condSet = "Available"
        => /\ ret.op = "Observe" /\ ret.err = NoError /\ ret.stage = "none"
           /\ ret.validation = "ok"
           /\ ret.exists
           /\ ret.conn # NoConnection
           /\ cond = "Available"
           /\ {"GetCluster", "ListInstanceGroups", "Validate", "ClientcmdWrite"} \subseteq CallOps

C6_Witness ==
    /\ ret.op = "Observe" /\ ret.condSet = "Available" /\ cond = "Available"
    /\ ret.exists /\ ~ret.upToDate

\* C23: Observe writes nothing to the backend.  On every path, failing or
\* not, its calls include no cluster create, update or delete, no instance
\* group create or update, no deletion of cloud resources and no run of the
\* provisioning engine, and the stored cluster, the stored instance groups
\* and the infrastructure are after the Observe what they were before it.
C23_ObserveReadOnly ==
    [][ret'.op = "Observe" =>
          /\ \A i \in 1..Len(calls') :
                calls'[i].op \notin
                    {"CreateCluster", "UpdateCluster", "DeleteCluster",
                     "CreateInstanceGroup", "UpdateInstanceGroup", "DeleteResources",
                     "ApplyClusterCmd"}
          /\ cluster' = cluster
          /\ igs' = igs
          /\ infra' = infra]_vars

\* an Observe that went through every stage, on a cluster with a group
C23_Witness ==
    /\ ret.op = "Observe" /\ ret.err = NoError /\ ret.exists /\ ~ret.upToDate
    /\ cluster # NoCluster /\ igs # <<>> /\ infra
    /\ {"GetCluster", "ListInstanceGroups", "BuildCloud", "Validate", "IssueCert",
        "ClientcmdWrite"} \subseteq CallOps

\* C24: an Observe returns exists = true only with a nil error and only
\* when the cluster fetch, the instance group list, the validation (with an
\* ok result) and the kubeconfig generation all succeeded in that
\* invocation, and then its connection details hold the kubeconfig of the
\* fetched cluster; an Observe that returns an error returns exists = false,
\* upToDate = false and no connection details.
C24_ExistsOnlyOnSuccess ==
    ret.op = "Observe" =>
        /\ ret.exists =>
              /\ ret.err = NoError
              /\ ret.stage = "none" /\ ret.validation = "ok"
              /\ \E i, j, k, l \in 1..Len(calls) :
                    /\ i < j /\ j < k /\ k < l /\ l = Len(calls)
                    /\ calls[i].op = "GetCluster"
                    /\ calls[j].op = "ListInstanceGroups"
                    /\ calls[k].op = "Validate"
                    /\ calls[l].op = "ClientcmdWrite"
              /\ \E c \in ret.conn :
                    /\ c.key = "kubeconfig"
                    /\ c.value.CurrentContext = cluster.Name
                    /\ c.value.ClientCertificateData.CommonName = "kops-operator"
        /\ ret.err # NoError =>
              /\ ~ret.exists
              /\ ~ret.upToDate
              /\ ret.conn = NoConnection

\* an Observe of a healthy cluster that is up to date
C24_Witness ==
    /\ ret.op = "Observe" /\ ret.exists /\ ret.upToDate /\ ret.err = NoError
    /\ ret.conn # NoConnection
    /\ calls[Len(calls)].op = "ClientcmdWrite"

\* C14: what an Observe returns is fixed by the desired spec and the state
\* store and cloud it reads, together with the stage (if any) at which an
\* external call failed: exists is true exactly when no stage failed,
\* upToDate is then the comparison of the desired spec with the stored
\* cluster and groups, and nothing of it depends on what earlier invocations
\* returned or on the condition they left.
C14_ObserveLevelTriggered ==
    ret.op = "Observe" =>
        /\ ret.exists <=> ret.stage = "none"
        /\ ret.upToDate <=>
              /\ ret.stage = "none"
              /\ ClusterResourceUpToDate(desired.ClusterSpec, cluster.Spec)
              /\ InstanceGroupListResourceUpToDate(desired.InstanceGroupSpec, igs)
        /\ ret.stage = "none" => (cluster # NoCluster /\ infra)
        /\ cluster = NoCluster => ret.stage = "cluster fetch"
        /\ (cluster # NoCluster /\ ~infra) =>
              ret.stage \in {"cluster fetch", "instance group fetch", "validation"}

\* an Observe that fails after an earlier Observe had succeeded
C14_Witness ==
    /\ ret.op = "Observe" /\ cond = "Available"
    /\ ret.stage = "validation" /\ ~ret.exists
    /\ cluster # NoCluster /\ infra

-----------------------------------------------------------------------------
(* Properties of Create, Update and Delete                                 *)

CallsOf(op) == SelectSeq(calls, LAMBDA c : c.op = op)

\* C4: one Create calls cluster-create exactly once, first, then creates
\* instance groups in the order of the desired list, each at most once; when
\* the creation of group k fails Create returns an error, no later group is
\* created, the cluster object and the groups created before stay, and when
\* Create succeeds every listed group was created exactly once.
C4_CreateOrder ==
    ret.op = "Create" =>
        LET created == CallsOf("CreateInstanceGroup")
            list == desired.InstanceGroupSpec
        IN /\ Len(CallsOf("CreateCluster")) = 1
           /\ calls[1].op = "CreateCluster"
           /\ Len(created) <= Len(list)
           /\ \A i \in 1..Len(created) : created[i].arg = list[i].NodeLabels
           /\ CallOps \subseteq {"CreateCluster", "CreateInstanceGroup", "BuildCloud",
                                 "PerformAssignments", "ApplyClusterCmd"}
           /\ ret.stage = "cluster create" => created = <<>>
           /\ ret.stage = "instance group create" =>
                /\ ret.err # NoError
                /\ calls[Len(calls)].op = "CreateInstanceGroup"
                /\ cluster = CreateClusterSpec(desired)
                /\ \A i \in 1..(Len(created) - 1) : HasGroup(igs, created[i].arg)
           /\ ret.err = NoError => Len(created) = Len(list)

C4_Witness ==
    /\ ret.op = "Create" /\ ret.stage = "instance group create"
    /\ Len(desired.InstanceGroupSpec) = 2
    /\ Len(CallsOf("CreateInstanceGroup")) = 1
    /\ cluster = CreateClusterSpec(desired)

\* C5: when the cloud build or the cloud assignment of an Update fails, the
\* invocation calls neither update-cluster nor the cluster-status fetch, the
\* instance group update or the provisioning engine, and it leaves the
\* state store and the infrastructure as they were.
C5_NoWriteBeforeAssignment ==
    [][(ret'.op = "Update" /\ ret'.stage \in {"cloud build", "cloud assignment"})
          => /\ ret'.err # NoError
             /\ \A i \in 1..Len(calls') :
                    calls'[i].op \notin {"UpdateCluster", "FindClusterStatus",
                                         "UpdateInstanceGroup", "ApplyClusterCmd"}
             /\ cluster' = cluster /\ igs' = igs /\ infra' = infra]_vars

C5_Witness ==
    /\ ret.op = "Update" /\ ret.stage = "cloud assignment"
    /\ ret.err.tag = errNewCloudAssignment
    /\ cluster.Spec.KubernetesVersion # desired.ClusterSpec.KubernetesVersion

\* C7 as claimed: the Creating condition is set by every Create and the
\* Deleting condition by every Delete, whether or not the operation succeeds.
C7_ConditionSetOnInvocation ==
    /\ ret.op = "Create" => ret.condSet = "Creating"
    /\ ret.op = "Delete" => ret.condSet = "Deleting"

\* The stage each tag names
TagStage(tag) ==
    CASE tag = errGetCluster -> "cluster fetch"
      [] tag = errGetInstanceGroup -> "instance group fetch"
      [] tag \in {errValidateCluster, errEvaluateClusterState} -> "validation"
      [] tag = errGetKubeConfig -> "kubeconfig generation"
      [] tag = errNewClusterState -> "cluster create"
      [] tag = errUpdateClusterState -> "cluster update"
      [] tag = errDeleteCluster -> "cluster delete"
      [] tag = errNewCloud -> "cloud build"
      [] tag = errNewCloudAssignment -> "cloud assignment"
      [] tag = errGetClusterStatus -> "cluster status"
      [] tag = errDeleteResources -> "resource deletion"
      [] tag = errNewInstanceGroupState -> "instance group create"
      [] tag \in {errNewCluster, errUpdateCluster} -> "provisioning"
      [] OTHER -> "none"

\* C8 as claimed: every error a handler returns for a failed external call
\* carries a stage tag, and the tag alone names the stage that failed.
C8_ErrorsTaggedByStage ==
    ret.err # NoError =>
        /\ ret.err.tag # NoTag
        /\ TagStage(ret.err.tag) = ret.stage

-----------------------------------------------------------------------------
(* Properties of the util functions                                        *)

\* C9: the validation reduction answers ok exactly when the failure list is
\* empty and no node has status False; nodes with status Unknown or with no
\* status do not make it fail.
C9_EvaluateOk ==
    (fnIn.fn = "Evaluate" /\ fnOut.done) =>
        LET v == fnIn.validation
        IN fnOut.res.ok <=>
              /\ v.Failures = <<>>
              /\ \A i \in 1..Len(v.Nodes) : v.Nodes[i].Status # ConditionFalse

C9_Witness ==
    /\ fnIn.fn = "Evaluate" /\ fnOut.done
    /\ fnIn.validation.Failures = <<>>
    /\ Len(fnIn.validation.Nodes) = 2
    /\ fnIn.validation.Nodes[1].Status = ConditionUnknown
    /\ fnIn.validation.Nodes[2].Status = ""
    /\ fnOut.res.ok

\* C10 as claimed: for every desired spec s, the cluster comparator answers
\* true for an observed spec that equals s outside the two derived fields,
\* whatever the derived fields hold, and false for one that differs from s
\* in another field.
C10_ComparatorIgnoresDerived ==
    (fnIn.fn = "ClusterUpToDate" /\ fnOut.done) =>
        fnOut.res <=> (fnIn.new.KubernetesVersion = fnIn.old.KubernetesVersion)

\* The instancegroup-label values of a list of specs
LabelsOf(specs) == { specs[i].NodeLabels : i \in 1..Len(specs) }
SpecsOf(items) == [j \in 1..Len(items) |-> items[j].Spec]

\* C11: the instance group comparator answers false exactly when some desired
\* group and some observed group carry the same instancegroup-label value and
\* have different specs; for lists whose label values are disjoint it answers
\* true whatever the groups hold.
C11_GroupComparator ==
    (fnIn.fn = "GroupsUpToDate" /\ fnOut.done) =>
        LET old == fnIn.specs
            new == SpecsOf(fnIn.items)
        IN /\ ~fnOut.res <=>
                 \E i \in 1..Len(old), j \in 1..Len(new) :
                     old[i].NodeLabels = new[j].NodeLabels /\ old[i] # new[j]
           /\ (LabelsOf(old) \cap LabelsOf(new) = {}) => fnOut.res

C11_Witness ==
    /\ fnIn.fn = "GroupsUpToDate" /\ fnOut.done
    /\ Len(fnIn.specs) = 2 /\ Len(fnIn.items) = 1
    /\ LabelsOf(fnIn.specs) \cap LabelsOf(SpecsOf(fnIn.items)) = {}
    /\ fnIn.specs[1].MachineType # fnIn.items[1].Spec.MachineType
    /\ fnOut.res

-----------------------------------------------------------------------------
(* Passes side by side                                                     *)

\* what the handler of a pass returns and leaves when it runs alone on the
\* store entry of its cluster
Alone(p) ==
    LET s == p.start
    IN CASE p.op = "Observe" ->
              LET o == ObserveRun(p.desired, s.cluster, s.igs, s.infra, p.f,
                                  HealthyValidation)
              IN [calls |-> o.calls, ret |-> o.ret, entry |-> s]
         [] p.op = "Create" ->
              LET o == CreateRun(p.desired, s.cluster, s.igs, s.infra, p.f)
              IN [calls |-> o.calls, ret |-> o.ret,
                  entry |-> Entry(o.cluster, o.igs, o.infra)]
         [] p.op = "Update" ->
              LET o == UpdateRun(p.desired, s.cluster, s.igs, s.infra, p.f)
              IN [calls |-> o.calls, ret |-> o.ret,
                  entry |-> Entry(o.cluster, o.igs, o.infra)]
         [] p.op = "Delete" ->
              LET o == DeleteRun(s.cluster, s.igs, s.infra, p.f)
              IN [calls |-> o.calls, ret |-> o.ret,
                  entry |-> Entry(o.cluster, o.igs, o.infra)]

\* C13: passes of two managed resources with different names name.domain
\* may interleave at every access to the state store and the cloud: a
\* handler reads and writes only the cluster, groups and infrastructure of
\* its own name, so when it returns, its calls, its result and what the
\* store holds for its cluster are those of the same handler run alone, and
\* the store entry of a resource changes only by steps of its own pass.
C13_PassesIsolated ==
    [][\A id \in Identities :
          /\ pass'[id] = pass[id] => store'[id] = store[id]
          /\ pass'[id].pc = "done" =>
                LET a == Alone(pass'[id])
                IN /\ pass'[id].calls = a.calls
                   /\ pass'[id].ret = a.ret
                   /\ store'[id] = a.entry]_vars

\* both passes are under way at once, each having written to the store
C13_Witness ==
    /\ pass["a.example.com"].op = "Create" /\ pass["a.example.com"].pc = "Apply"
    /\ pass["b.example.com"].op = "Update" /\ pass["b.example.com"].pc = "Group"
    /\ store["a.example.com"].cluster # NoCluster
    /\ store["b.example.com"].cluster = CreateClusterSpec(ParDesired("b.example.com"))

-----------------------------------------------------------------------------
(* Convergence                                                             *)

\* the stored cluster and instance groups are the desired ones
Converged ==
    /\ cluster # NoCluster
    /\ [cluster.Spec EXCEPT !.ConfigBase = "", !.MasterPublicName = ""]
         = [desired.ClusterSpec EXCEPT !.ConfigBase = "", !.MasterPublicName = ""]
    /\ { igs[j].Spec : j \in 1..Len(igs) }
         = { desired.InstanceGroupSpec[i] : i \in 1..Len(desired.InstanceGroupSpec) }

CreateAbortedNow == ret.op = "Create" /\ ret.err # NoError

\* C15 as claimed: while every external call succeeds, from a store with no
\* cluster or with an older cluster whose instance groups were changed,
\* added or removed, the reconcile cycles reach a state where the stored
\* cluster and groups are the desired ones, and from then on Observe reports
\* exists and up to date and neither Create nor Update is run.
C15_Converges ==
    [](~CreateAbortedNow)
        => <>[](Converged /\ ret.op = "Observe" /\ ret.exists /\ ret.upToDate)

\* C16 as claimed: after a Create that was cut short once the cluster object
\* existed, and with every later external call succeeding, the cycles reach
\* a state where every desired instance group is stored and the
\* infrastructure is applied.
C16_PartialCreateReconciled ==
    (CreateAbortedNow /\ cluster # NoCluster)
        ~> (/\ infra
            /\ \A i \in 1..Len(desired.InstanceGroupSpec) :
                   HasGroup(igs, desired.InstanceGroupSpec[i].NodeLabels))

-----------------------------------------------------------------------------
(* Order of the calls of Create, Update, Delete and the credential issuer  *)

OpsOf(cs) == [i \in 1..Len(cs) |-> cs[i].op]
ArgsOf(cs) == [i \in 1..Len(cs) |-> cs[i].arg]
IsPrefix(p, q) == Len(p) <= Len(q) /\ p = SubSeq(q, 1, Len(p))

\* The calls of a Create that runs to the engine, for the desired list
CreateOrder(list) ==
    <<"CreateCluster">> \o [i \in 1..Len(list) |-> "CreateInstanceGroup"]
        \o <<"BuildCloud", "PerformAssignments", "ApplyClusterCmd">>

\* C17: Create invokes the provisioning engine at most once, as its last
\* call, after the cluster object was created, every desired instance group
\* was created, the cloud was built and the assignment succeeded, in that
\* order; when one of these steps fails the engine is not invoked and Create
\* returns an error.
C17_EngineLast ==
    ret.op = "Create" =>
        LET list == desired.InstanceGroupSpec
        IN /\ Len(CallsOf("ApplyClusterCmd")) <= 1
           /\ IsPrefix(OpsOf(calls), CreateOrder(list))
           /\ "ApplyClusterCmd" \in CallOps =>
                /\ OpsOf(calls) = CreateOrder(list)
                /\ ArgsOf(CallsOf("CreateInstanceGroup"))
                       = [i \in 1..Len(list) |-> list[i].NodeLabels]
                /\ cluster = CreateClusterSpec(desired)
                /\ \A i \in 1..Len(list) : HasGroup(igs, list[i].NodeLabels)
           /\ ret.stage \in {"cluster create", "instance group create", "cloud build",
                              "cloud assignment"} =>
                /\ "ApplyClusterCmd" \notin CallOps
                /\ ret.err # NoError

C17_Witness ==
    /\ ret.op = "Create" /\ ret.stage = "cloud assignment"
    /\ Len(desired.InstanceGroupSpec) = 2
    /\ Len(CallsOf("CreateInstanceGroup")) = 2
    /\ "ApplyClusterCmd" \notin CallOps /\ ~infra

\* The writes of an Update that runs to the engine, for the desired list
UpdateWrites(list) ==
    <<"UpdateCluster">> \o [i \in 1..Len(list) |-> "UpdateInstanceGroup"]
        \o <<"ApplyClusterCmd">>
WriteOps ==
    {"CreateCluster", "UpdateCluster", "DeleteCluster", "CreateInstanceGroup",
     "UpdateInstanceGroup", "DeleteResources", "ApplyClusterCmd"}
Writes(cs) == SelectSeq(cs, LAMBDA c : c.op \in WriteOps)

\* C18: the writes of an Update are update-cluster, then the update (never
\* the creation) of each desired instance group in list order, then the
\* provisioning engine.  When it fails at group k or at the engine it returns
\* an error, the cluster object and the groups before k hold the desired
\* specs, and the groups from k on and the infrastructure are as they were.
C18_UpdateOrder ==
    [][ret'.op = "Update" =>
        LET list == desired.InstanceGroupSpec
            done == (Len(CallsOf("UpdateInstanceGroup")) - 1)'
            updated(name) == \E i \in 1..done : list[i].NodeLabels = name
        IN /\ IsPrefix(OpsOf(Writes(calls)), UpdateWrites(list))'
           /\ IsPrefix(ArgsOf(CallsOf("UpdateInstanceGroup"))',
                       [i \in 1..Len(list) |-> list[i].NodeLabels])
           /\ ret'.stage \in {"instance group update", "provisioning"} =>
                /\ ret'.err # NoError
                /\ cluster' = CreateClusterSpec(desired)
                /\ infra' = infra
                /\ Len(igs') = Len(igs)
                /\ \A j \in 1..Len(igs) :
                      LET k == IF ret'.stage = "provisioning" THEN Len(list) ELSE done
                      IN /\ igs'[j].Name = igs[j].Name
                         /\ \A i \in 1..k :
                               list[i].NodeLabels = igs[j].Name => igs'[j].Spec = list[i]
                         /\ (~\E i \in 1..k : list[i].NodeLabels = igs[j].Name)
                               => igs'[j] = igs[j]]_vars

\* the update of the second of two groups failed: the first holds the desired
\* spec, the second does not
C18_Witness ==
    /\ ret.op = "Update" /\ ret.stage = "instance group update"
    /\ Len(desired.InstanceGroupSpec) = 2
    /\ Len(CallsOf("UpdateInstanceGroup")) = 2
    /\ cluster = CreateClusterSpec(desired)
    /\ Len(igs) = 2
    /\ \E j \in 1..2 : igs[j].Spec = desired.InstanceGroupSpec[1]
    /\ \E j \in 1..2 : /\ igs[j].Name = desired.InstanceGroupSpec[2].NodeLabels
                        /\ igs[j].Spec # desired.InstanceGroupSpec[2]

DeleteOrder ==
    <<"GetCluster", "BuildCloud", "ListResources", "DeleteResources", "DeleteCluster">>

\* C19: the calls of a Delete are a prefix of fetch cluster, build cloud,
\* list resources, delete resources, delete cluster; when the fetch fails
\* (a not-found answer included) or a later step fails, Delete returns an
\* error, makes no further call and leaves the cluster object; the cluster
\* object is removed only by a Delete whose resource deletion succeeded.
C19_DeleteOrder ==
    [][ret'.op = "Delete" =>
        /\ IsPrefix(OpsOf(calls), DeleteOrder)'
        /\ ret'.stage # "none" =>
             /\ ret'.err # NoError
             /\ (calls[Len(calls)].op)' = DeleteOrder[Len(calls')]
             /\ cluster' = cluster /\ igs' = igs
        /\ ret'.stage \in {"cluster fetch", "cloud build", "resource listing"} =>
             infra' = infra
        /\ ret'.stage = "none" =>
             /\ ret'.err = NoError
             /\ OpsOf(calls)' = DeleteOrder
             /\ cluster' = NoCluster /\ ~infra'
        /\ cluster' # cluster => (ret'.stage = "none" /\ ~infra')]_vars

\* a Delete whose cluster fetch was answered "not found"
C19_Witness ==
    /\ ret.op = "Delete" /\ ret.stage = "cluster fetch"
    /\ ErrNotFound(ret.cause) /\ ret.err.tag = errGetCluster
    /\ calls = <<Call("GetCluster", "")>>
    /\ cluster # NoCluster

-----------------------------------------------------------------------------
(* Properties of the credential issuer                                     *)

IssuerOrder ==
    <<"KeyStore", "FindKeyset", "ToCertificateBytes", "IssueCert", "CertAsBytes",
      "KeyAsBytes", "BuildRestConfig">>

\* C20: the calls of the credential issuer are a prefix of resolve key
\* store, find CA key set, read CA certificate, issue certificate, serialize;
\* when the key store cannot be resolved, the CA lookup fails or the CA key
\* set is absent no certificate is issued; whenever a step fails the issuer
\* returns an error and no descriptor, and otherwise it made every call and
\* returns the descriptor.
C20_IssuerSteps ==
    (fnIn.fn = "Kubeconfig" /\ fnOut.done) =>
        LET r == fnOut.res
            ops == OpsOf(r.calls)
            issued == \E i \in 1..Len(ops) : ops[i] = "IssueCert"
        IN /\ IsPrefix(ops, IssuerOrder)
           /\ (fnIn.fault.op \in {"KeyStore", "FindKeyset"} \/ ~fnIn.ca) =>
                (~issued /\ r.err # NoErr)
           /\ (fnIn.fault # NoFault \/ ~fnIn.ca) => (r.err # NoErr /\ r.val = <<>>)
           /\ r.err # NoErr => r.val = <<>>
           /\ r.err = NoErr =>
                /\ ops = IssuerOrder
                /\ r.val.Context = fnIn.cluster.Name
                /\ r.val.CertData = Certificate(IssueCertRequest(fnIn.ttl))

\* the CA key set is absent: the issuer stops after the lookup
C20_Witness ==
    /\ fnIn.fn = "Kubeconfig" /\ fnOut.done
    /\ ~fnIn.ca /\ fnIn.fault = NoFault
    /\ OpsOf(fnOut.res.calls) = <<"KeyStore", "FindKeyset">>
    /\ fnOut.res.err = MsgNoCA /\ fnOut.res.val = <<>>

\* the nodes of a list whose status is False, in the order of the list
IsFalse(node) == node.Status = ConditionFalse
FalseNodes(nodes) == SelectSeq(nodes, IsFalse)

\* C22: the message list of the validation reduction is the messages of all
\* failures in the order of the failure list, followed by one message
\* "node <hostname> condition is False" for each node with status False in
\* the order of the node list; equal messages are all kept, and a node whose
\* status is not False adds no message.
C22_MessageList ==
    (fnIn.fn = "Evaluate" /\ fnOut.done) =>
        LET v == fnIn.validation
            bad == FalseNodes(v.Nodes)
        IN fnOut.res.msgs =
              [i \in 1..Len(v.Failures) |-> v.Failures[i].Message]
              \o [i \in 1..Len(bad) |->
                     <<"node", bad[i].Hostname, "condition is", "False">>]

\* the same failure twice, then a node that is not False and one that is
C22_Witness ==
    /\ fnIn.fn = "Evaluate" /\ fnOut.done
    /\ Len(fnIn.validation.Failures) = 2
    /\ fnIn.validation.Failures[1] = fnIn.validation.Failures[2]
    /\ Len(fnIn.validation.Nodes) = 2
    /\ fnIn.validation.Nodes[1].Status = ConditionUnknown
    /\ fnIn.validation.Nodes[2].Status = ConditionFalse
    /\ Len(fnOut.res.msgs) = 3
    /\ fnOut.res.msgs[1] = fnOut.res.msgs[2]

\* 18 hours in nanoseconds, 64 800 000 000 000, as the bytes of an int64
EighteenHours == <<0, 64, 251, 108, 239, 58, 0, 0>>

\* C12: credential issuance called with ttl = 0 and succeeding issues a
\* client certificate whose validity is exactly 18 hours.
C12_DefaultValidity ==
    (fnIn.fn = "Kubeconfig" /\ fnOut.done /\ fnIn.ttl = Int64(0)
        /\ fnOut.res.err = NoErr)
        => fnOut.res.val.CertData.Validity = EighteenHours

C12_Witness ==
    /\ fnIn.fn = "Kubeconfig" /\ fnOut.done /\ fnIn.ttl = Int64(0)
    /\ fnOut.res.err = NoErr
    /\ fnOut.res.val.CertData.Validity = EighteenHours

\* C21: credential issuance called with a ttl t other than zero and
\* succeeding issues a client certificate whose validity is t itself, the
\* duration neither rescaled nor overflowed.
C21_ValidityIsTTL ==
    (fnIn.fn = "Kubeconfig" /\ fnOut.done /\ fnIn.ttl # Int64(0)
        /\ fnOut.res.err = NoErr)
        => fnOut.res.val.CertData.Validity = fnIn.ttl

=============================================================================
